---- MODULE Spec2Model ----
(***************************************************************************)
(* Model of lib/Pico_ed.py: the IS31FL3731-style bank-switched LED matrix  *)
(* driver (class Matrix) and the text renderer built on it (class Display).*)
(* The device is modelled at the level of I2C memory transactions: every   *)
(* driver method yields the sequence of writeto_mem calls it issues, and   *)
(* the device applies them one by one.                                     *)
(***************************************************************************)
EXTENDS Integers, Sequences, FiniteSets, TLC

\* ------------------------------------------------------------ constants
_MODE_REGISTER == 0
_FRAME_REGISTER == 1
_AUTOPLAY1_REGISTER == 2
_AUTOPLAY2_REGISTER == 3
_BLINK_REGISTER == 5
_AUDIOSYNC_REGISTER == 6
_BREATH1_REGISTER == 8
_BREATH2_REGISTER == 9
_SHUTDOWN_REGISTER == 10
_GAIN_REGISTER == 11
_ADC_REGISTER == 12

_CONFIG_BANK == 11
_BANK_ADDRESS == 253

_PICTURE_MODE == 0
_AUTOPLAY_MODE == 8
_AUDIOPLAY_MODE == 24

_ENABLE_OFFSET == 0
_BLINK_OFFSET == 18
_COLOR_OFFSET == 36

width == 17
height == 7

\* Python's None, for the optional arguments (every real argument used
\* by the model is an integer above this value).
None == -1000

\* ------------------------------------------------------------ bounds
\* Number of public driver calls made after construction.
MaxOps == 3
\* Longest text handed to show().
MaxLen == 5
MaxRaceCalls == 1

\* ------------------------------------------------------------ helpers
\* bytearray([v]): the single byte a write carries. Every value the calls
\* below hand to it lies in 0..255 already, bar a frame argument that the
\* caller chose outside that range.
Byte(v) == v % 256

\* bool(v) as the integer 0 / 1 it takes in arithmetic.
Bool(v) == IF v = 0 THEN 0 ELSE 1

RECURSIVE BitOr(_, _)
\* Python's a | b on non-negative integers.
BitOr(a, b) ==
    IF a = 0 THEN b
    ELSE IF b = 0 THEN a
    ELSE (IF a % 2 = 1 \/ b % 2 = 1 THEN 1 ELSE 0) + 2 * BitOr(a \div 2, b \div 2)

\* Python's a << n.
Shl(a, n) == a * (2 ^ n)

\* bytearray([color] * n)
Repeat(v, n) == [i \in 1..n |-> v]

RECURSIVE Flatten(_)
\* The transactions of consecutive calls, in program order.
Flatten(ss) == IF ss = << >> THEN << >> ELSE Head(ss) \o Flatten(Tail(ss))

\* ------------------------------------------------------------ the bus
\* One i2c.writeto_mem(address, reg, data). "target" is the bank the issuing
\* call means to address (the register itself for a bank-select write).
Tx(target, reg, data) == [reg |-> reg, data |-> data, target |-> target]

\* Outcome of a call: the transactions issued, whether it raised ValueError,
\* and the value of self._frame afterwards.
Result(txs, raised, frame) == [txs |-> txs, raised |-> raised, frame |-> frame]

\* Matrix._bank(bank) with bank given: one write to the bank-select register.
_bank(bank) == << Tx(_BANK_ADDRESS, _BANK_ADDRESS, << Byte(bank) >>) >>

\* One i2c.readfrom_mem(address, reg, 1): it carries no data to the chip.
Rx(target, reg) == [reg |-> reg, data |-> << >>, target |-> target]

\* _register that trusts the bank selected earlier and skips self._bank.
_register_nobank(bank, register, value) ==
    << IF value = None THEN Rx(bank, register) ELSE Tx(bank, register, << Byte(value) >>) >>

\* Matrix._register(bank, register, value): select the bank, then read the
\* register (value is None) or write it.
_register(bank, register, value) ==
    _bank(bank)
    \o << IF value = None THEN Rx(bank, register) ELSE Tx(bank, register, << Byte(value) >>) >>

\* Matrix._mode(mode) with mode given.
_mode(mode) == _register(_CONFIG_BANK, _MODE_REGISTER, mode)

\* ------------------------------------------------------------ the device
ConfigRegs == 0..12
FrameBanks == 0..7
FrameOffsets == 0..179

\* A data write of data at reg, address auto-incrementing, into one page.
WritePage(page, reg, data) ==
    [o \in DOMAIN page |->
        IF o >= reg /\ o < reg + Len(data) THEN data[o - reg + 1] ELSE page[o]]

\* The device's reaction to one transaction. The bank-select register is
\* reachable from every bank; any other register belongs to the selected
\* bank, and a bank the chip does not have stores nothing.
DevStep(d, t) ==
    IF t.reg = _BANK_ADDRESS THEN [d EXCEPT !.bank = t.data[1]]
    ELSE IF d.bank = _CONFIG_BANK THEN [d EXCEPT !.cfg = WritePage(d.cfg, t.reg, t.data)]
    ELSE IF d.bank \in FrameBanks
         THEN [d EXCEPT !.mem[d.bank] = WritePage(d.mem[d.bank], t.reg, t.data)]
    ELSE d

RECURSIVE DevRun(_, _)
\* The device after a sequence of transactions, applied in order: the first
\* half, then (the bank register being a byte) the second half.
DevRun(d, txs) ==
    IF txs = << >> THEN d
    ELSE IF Len(txs) = 1 THEN DevStep(d, txs[1])
    ELSE LET mid == DevRun(d, SubSeq(txs, 1, Len(txs) \div 2)) IN
         IF mid.bank \in 0..255
         THEN DevRun(mid, SubSeq(txs, Len(txs) \div 2 + 1, Len(txs)))
         ELSE mid

\* ------------------------------------------------------------ Matrix
\* sleep that writes the mode register in place of the shutdown register.
sleep_mode(value, cur) ==
    Result(_register(_CONFIG_BANK, _MODE_REGISTER, IF value = 0 THEN 1 ELSE 0),
           FALSE, cur)

\* Matrix.sleep(value): the shutdown register takes "not value".
sleep(value, cur) ==
    Result(_register(_CONFIG_BANK, _SHUTDOWN_REGISTER, IF value = 0 THEN 1 ELSE 0),
           FALSE, cur)

\* Matrix.reset()
reset(cur) == Result(sleep(1, cur).txs \o sleep(0, cur).txs, FALSE, cur)

\* Matrix.frame(frame, show)
frame(f, show, cur) ==
    IF f = None THEN Result(<< >>, FALSE, cur)
    ELSE IF ~(0 <= f /\ f <= 8) THEN Result(<< >>, TRUE, cur)
    ELSE Result(IF show # 0 THEN _register(_CONFIG_BANK, _FRAME_REGISTER, f) ELSE << >>,
                FALSE, f)

\* Matrix.audio_sync(value): a read of the register when value is None.
audio_sync(value, cur) ==
    Result(_register(_CONFIG_BANK, _AUDIOSYNC_REGISTER, value), FALSE, cur)

\* autoplay that switches the mode before it writes the parameters.
autoplay_modefirst(delay, loops, frames, cur) ==
    IF delay = 0 THEN Result(_mode(_PICTURE_MODE), FALSE, cur)
    ELSE LET d == delay \div 11 IN
         IF ~(0 <= loops /\ loops <= 7) THEN Result(<< >>, TRUE, cur)
         ELSE IF ~(0 <= frames /\ frames <= 7) THEN Result(<< >>, TRUE, cur)
         ELSE IF ~(1 <= d /\ d <= 64) THEN Result(<< >>, TRUE, cur)
         ELSE Result(_mode(BitOr(_AUTOPLAY_MODE, cur))
                     \o _register(_CONFIG_BANK, _AUTOPLAY1_REGISTER, BitOr(Shl(loops, 4), frames))
                     \o _register(_CONFIG_BANK, _AUTOPLAY2_REGISTER, d % 64),
                     FALSE, cur)

\* autoplay with the delay validated only after the first parameter
\* register has been written.
autoplay_late(delay, loops, frames, cur) ==
    IF delay = 0 THEN Result(_mode(_PICTURE_MODE), FALSE, cur)
    ELSE LET d == delay \div 11
             first == _register(_CONFIG_BANK, _AUTOPLAY1_REGISTER, BitOr(Shl(loops, 4), frames))
         IN
         IF ~(0 <= loops /\ loops <= 7) THEN Result(<< >>, TRUE, cur)
         ELSE IF ~(0 <= frames /\ frames <= 7) THEN Result(<< >>, TRUE, cur)
         ELSE IF ~(1 <= d /\ d <= 64) THEN Result(first, TRUE, cur)
         ELSE Result(first
                     \o _register(_CONFIG_BANK, _AUTOPLAY2_REGISTER, d % 64)
                     \o _mode(BitOr(_AUTOPLAY_MODE, cur)),
                     FALSE, cur)

\* autoplay with the range checks placed ahead of the delay == 0 shortcut.
autoplay_checkfirst(delay, loops, frames, cur) ==
    IF ~(0 <= loops /\ loops <= 7) THEN Result(<< >>, TRUE, cur)
    ELSE IF ~(0 <= frames /\ frames <= 7) THEN Result(<< >>, TRUE, cur)
    ELSE IF delay = 0 THEN Result(_mode(_PICTURE_MODE), FALSE, cur)
    ELSE IF ~(1 <= delay \div 11 /\ delay \div 11 <= 64) THEN Result(<< >>, TRUE, cur)
    ELSE Result(_register(_CONFIG_BANK, _AUTOPLAY1_REGISTER, BitOr(Shl(loops, 4), frames))
                \o _register(_CONFIG_BANK, _AUTOPLAY2_REGISTER, (delay \div 11) % 64)
                \o _mode(BitOr(_AUTOPLAY_MODE, cur)),
                FALSE, cur)

\* Matrix.autoplay(delay, loops, frames)
autoplay(delay, loops, frames, cur) ==
    IF delay = 0 THEN Result(_mode(_PICTURE_MODE), FALSE, cur)
    ELSE LET d == delay \div 11 IN
         IF ~(0 <= loops /\ loops <= 7) THEN Result(<< >>, TRUE, cur)
         ELSE IF ~(0 <= frames /\ frames <= 7) THEN Result(<< >>, TRUE, cur)
         ELSE IF ~(1 <= d /\ d <= 64) THEN Result(<< >>, TRUE, cur)
         ELSE Result(_register(_CONFIG_BANK, _AUTOPLAY1_REGISTER, BitOr(Shl(loops, 4), frames))
                     \o _register(_CONFIG_BANK, _AUTOPLAY2_REGISTER, d % 64)
                     \o _mode(BitOr(_AUTOPLAY_MODE, cur)),
                     FALSE, cur)

\* Matrix.audio_play(sample_rate, audio_gain, agc_enable, agc_fast)
audio_play(sample_rate, audio_gain, agc_enable, agc_fast, cur) ==
    IF sample_rate = 0 THEN Result(_mode(_PICTURE_MODE), FALSE, cur)
    ELSE LET sr == sample_rate \div 46
             adc == _register(_CONFIG_BANK, _ADC_REGISTER, sr % 256)
             g == audio_gain \div 3
         IN  IF ~(1 <= sr /\ sr <= 256) THEN Result(<< >>, TRUE, cur)
             ELSE IF ~(0 <= g /\ g <= 7) THEN Result(adc, TRUE, cur)
             ELSE Result(adc
                         \o _register(_CONFIG_BANK, _GAIN_REGISTER,
                                BitOr(BitOr(Shl(Bool(agc_enable), 3), Shl(Bool(agc_fast), 4)), g))
                         \o _mode(_AUDIOPLAY_MODE),
                         FALSE, cur)

\* fill whose row loop stops one row short: range(5).
fill_short(color, blink, f, cur) ==
    LET fr == IF f = None THEN cur ELSE f
        sel == _bank(fr)
        rows == Flatten([row \in 1..5 |->
                    << Tx(fr, _COLOR_OFFSET + (row - 1) * 24, Repeat(color, 24)) >>])
        blinks == Flatten([col \in 1..18 |->
                    _register(fr, _BLINK_OFFSET + (col - 1), Bool(blink) * 255)])
    IN  IF color # None /\ ~(0 <= color /\ color <= 255) THEN Result(sel, TRUE, cur)
        ELSE Result(sel \o (IF color # None THEN rows ELSE << >>)
                        \o (IF blink # None THEN blinks ELSE << >>),
                    FALSE, cur)

\* Matrix.fill(color, blink, frame)
fill(color, blink, f, cur) ==
    LET fr == IF f = None THEN cur ELSE f
        sel == _bank(fr)
        rows == Flatten([row \in 1..6 |->
                    << Tx(fr, _COLOR_OFFSET + (row - 1) * 24, Repeat(color, 24)) >>])
        blinks == Flatten([col \in 1..18 |->
                    _register(fr, _BLINK_OFFSET + (col - 1), Bool(blink) * 255)])
    IN  IF color # None /\ ~(0 <= color /\ color <= 255) THEN Result(sel, TRUE, cur)
        ELSE Result(sel \o (IF color # None THEN rows ELSE << >>)
                        \o (IF blink # None THEN blinks ELSE << >>),
                    FALSE, cur)

\* write_frame that selects the bank before it checks the length.
write_frame_late(data, f, cur) ==
    LET fr == IF f = None THEN cur ELSE f IN
    IF Len(data) > 144 THEN Result(_bank(fr), TRUE, cur)
    ELSE Result(_bank(fr) \o << Tx(fr, _COLOR_OFFSET, data) >>, FALSE, cur)

\* Matrix.write_frame(data, frame)
write_frame(data, f, cur) ==
    IF Len(data) > 144 THEN Result(<< >>, TRUE, cur)
    ELSE LET fr == IF f = None THEN cur ELSE f IN
         Result(_bank(fr) \o << Tx(fr, _COLOR_OFFSET, data) >>, FALSE, cur)

\* _pixel_addr with the quadrant split one column early: x > 7.
_pixel_addr_split7(x, y) ==
    IF x > 7 THEN (17 - x) * 16 + (y + 8)
    ELSE x * 16 + (7 - y)

\* Matrix._pixel_addr(x, y)
_pixel_addr(x, y) ==
    IF x > 8 THEN (17 - x) * 16 + (y + 8)
    ELSE x * 16 + (7 - y)

\* pixel that ignores its frame argument and draws on the active frame.
pixel_active(x, y, color, blink, f, cur) ==
    IF ~(0 <= x /\ x <= width) THEN Result(<< >>, FALSE, cur)
    ELSE IF ~(0 <= y /\ y <= height) THEN Result(<< >>, FALSE, cur)
    ELSE LET px == _pixel_addr(x, y) IN
         IF color = None THEN Result(<< >>, FALSE, cur)
         ELSE IF ~(0 <= color /\ color <= 255) THEN Result(<< >>, TRUE, cur)
         ELSE Result(_register(cur, _COLOR_OFFSET + px, color), FALSE, cur)

\* Matrix.pixel(x, y, color, blink, frame)
pixel(x, y, color, blink, f, cur) ==
    IF ~(0 <= x /\ x <= width) THEN Result(<< >>, FALSE, cur)
    ELSE IF ~(0 <= y /\ y <= height) THEN Result(<< >>, FALSE, cur)
    ELSE LET px == _pixel_addr(x, y)
             fr == IF f = None THEN cur ELSE f
         IN  IF color = None THEN Result(<< >>, FALSE, cur)
             ELSE IF ~(0 <= color /\ color <= 255) THEN Result(<< >>, TRUE, cur)
             ELSE Result(_register(fr, _COLOR_OFFSET + px, color), FALSE, cur)

\* init that leaves the last frame out: range(7).
init_seven(cur) ==
    LET fr0 == frame(0, 1, cur)
        perFrame == Flatten([k \in 1..7 |->
                        fill(0, 0, k - 1, fr0.frame).txs
                        \o Flatten([col \in 1..18 |->
                              _register(k - 1, _ENABLE_OFFSET + (col - 1), 255)])])
    IN  Result(_mode(_PICTURE_MODE) \o fr0.txs \o perFrame
               \o audio_sync(0, fr0.frame).txs,
               FALSE, fr0.frame)

\* Matrix.init()
init(cur) ==
    LET fr0 == frame(0, 1, cur)
        perFrame == Flatten([k \in 1..8 |->
                        fill(0, 0, k - 1, fr0.frame).txs
                        \o Flatten([col \in 1..18 |->
                              _register(k - 1, _ENABLE_OFFSET + (col - 1), 255)])])
    IN  Result(_mode(_PICTURE_MODE) \o fr0.txs \o perFrame
               \o audio_sync(0, fr0.frame).txs,
               FALSE, fr0.frame)

\* Matrix.__init__(i2c, address): reset() then init().
__init__(cur) == LET r == init(cur) IN Result(reset(cur).txs \o r.txs, FALSE, r.frame)

\* Display.wordStock: character -> list of [dx, dy] lit cells.
wordStock ==
    "A" :> << <<1,0>>, <<2,0>>, <<3,0>>, <<0,1>>, <<4,1>>, <<0,2>>, <<4,2>>, <<0,3>>, <<4,3>>, <<0,4>>, <<1,4>>, <<2,4>>, <<3,4>>, <<4,4>>, <<0,5>>, <<4,5>>, <<0,6>>, <<4,6>> >> @@
    "B" :> << <<0,0>>, <<1,0>>, <<2,0>>, <<3,0>>, <<0,1>>, <<4,1>>, <<0,2>>, <<4,2>>, <<0,3>>, <<1,3>>, <<2,3>>, <<3,3>>, <<0,4>>, <<4,4>>, <<0,5>>, <<4,5>>, <<0,6>>, <<1,6>>, <<2,6>>, <<3,6>> >> @@
    "C" :> << <<1,0>>, <<2,0>>, <<3,0>>, <<0,1>>, <<4,1>>, <<0,2>>, <<0,3>>, <<0,4>>, <<0,5>>, <<4,5>>, <<1,6>>, <<2,6>>, <<3,6>> >> @@
    "D" :> << <<0,0>>, <<1,0>>, <<2,0>>, <<0,1>>, <<3,1>>, <<0,2>>, <<4,2>>, <<0,3>>, <<4,3>>, <<0,4>>, <<4,4>>, <<0,5>>, <<3,5>>, <<0,6>>, <<1,6>>, <<2,6>> >> @@
    "E" :> << <<0,0>>, <<1,0>>, <<2,0>>, <<3,0>>, <<4,0>>, <<0,1>>, <<0,2>>, <<0,3>>, <<1,3>>, <<2,3>>, <<3,3>>, <<0,4>>, <<0,5>>, <<0,6>>, <<1,6>>, <<2,6>>, <<3,6>>, <<4,6>> >> @@
    "F" :> << <<0,0>>, <<1,0>>, <<2,0>>, <<3,0>>, <<4,0>>, <<0,1>>, <<0,2>>, <<0,3>>, <<1,3>>, <<2,3>>, <<0,4>>, <<0,5>>, <<0,6>> >> @@
    "G" :> << <<1,0>>, <<2,0>>, <<3,0>>, <<0,1>>, <<4,1>>, <<0,2>>, <<0,3>>, <<0,4>>, <<3,4>>, <<4,4>>, <<0,5>>, <<4,5>>, <<1,6>>, <<2,6>>, <<3,6>> >> @@
    "H" :> << <<0,0>>, <<4,0>>, <<0,1>>, <<4,1>>, <<0,2>>, <<4,2>>, <<0,3>>, <<1,3>>, <<2,3>>, <<3,3>>, <<4,3>>, <<0,4>>, <<4,4>>, <<0,5>>, <<4,5>>, <<0,6>>, <<4,6>> >> @@
    "I" :> << <<1,0>>, <<2,0>>, <<3,0>>, <<2,1>>, <<2,2>>, <<2,3>>, <<2,4>>, <<2,5>>, <<2,6>>, <<1,6>>, <<2,6>>, <<3,6>> >> @@
    "J" :> << <<2,0>>, <<3,0>>, <<4,0>>, <<3,1>>, <<3,2>>, <<3,3>>, <<3,4>>, <<0,5>>, <<3,5>>, <<1,6>>, <<2,6>> >> @@
    "K" :> << <<0,0>>, <<4,0>>, <<0,1>>, <<3,1>>, <<0,2>>, <<2,2>>, <<0,3>>, <<1,3>>, <<0,4>>, <<2,4>>, <<0,5>>, <<3,5>>, <<0,6>>, <<4,6>> >> @@
    "L" :> << <<0,0>>, <<0,1>>, <<0,2>>, <<0,3>>, <<0,4>>, <<0,5>>, <<0,6>>, <<1,6>>, <<2,6>>, <<3,6>>, <<4,6>> >> @@
    "M" :> << <<0,0>>, <<4,0>>, <<0,1>>, <<1,1>>, <<3,1>>, <<4,1>>, <<0,2>>, <<2,2>>, <<4,2>>, <<0,3>>, <<4,3>>, <<0,4>>, <<4,4>>, <<0,5>>, <<4,5>>, <<0,6>>, <<4,6>> >> @@
    "N" :> << <<0,0>>, <<4,0>>, <<0,1>>, <<4,1>>, <<0,2>>, <<1,2>>, <<4,2>>, <<0,3>>, <<2,3>>, <<4,3>>, <<0,4>>, <<3,4>>, <<4,4>>, <<0,5>>, <<4,5>>, <<0,6>>, <<4,6>> >> @@
    "O" :> << <<1,0>>, <<2,0>>, <<3,0>>, <<0,1>>, <<4,1>>, <<0,2>>, <<4,2>>, <<0,3>>, <<4,3>>, <<0,4>>, <<4,4>>, <<0,5>>, <<4,5>>, <<1,6>>, <<2,6>>, <<3,6>> >> @@
    "P" :> << <<0,0>>, <<1,0>>, <<2,0>>, <<3,0>>, <<0,1>>, <<4,1>>, <<0,2>>, <<4,2>>, <<0,3>>, <<1,3>>, <<2,3>>, <<3,3>>, <<0,4>>, <<0,5>>, <<0,6>> >> @@
    "Q" :> << <<1,0>>, <<2,0>>, <<3,0>>, <<0,1>>, <<4,1>>, <<0,2>>, <<4,2>>, <<0,3>>, <<4,3>>, <<0,4>>, <<2,4>>, <<4,4>>, <<0,5>>, <<3,5>>, <<1,6>>, <<2,6>>, <<4,6>> >> @@
    "R" :> << <<0,0>>, <<1,0>>, <<2,0>>, <<3,0>>, <<0,1>>, <<4,1>>, <<0,2>>, <<4,2>>, <<0,3>>, <<1,3>>, <<2,3>>, <<3,3>>, <<0,4>>, <<2,4>>, <<0,5>>, <<3,5>>, <<0,6>>, <<4,6>> >> @@
    "S" :> << <<1,0>>, <<2,0>>, <<3,0>>, <<4,0>>, <<0,1>>, <<0,2>>, <<1,3>>, <<2,3>>, <<3,3>>, <<4,4>>, <<4,5>>, <<0,6>>, <<1,6>>, <<2,6>>, <<3,6>> >> @@
    "T" :> << <<0,0>>, <<1,0>>, <<2,0>>, <<3,0>>, <<4,0>>, <<2,1>>, <<2,2>>, <<2,3>>, <<2,4>>, <<2,5>>, <<2,6>> >> @@
    "U" :> << <<0,0>>, <<4,0>>, <<0,1>>, <<4,1>>, <<0,2>>, <<4,2>>, <<0,3>>, <<4,3>>, <<0,4>>, <<4,4>>, <<0,5>>, <<4,5>>, <<1,6>>, <<2,6>>, <<3,6>> >> @@
    "V" :> << <<0,0>>, <<4,0>>, <<0,1>>, <<4,1>>, <<0,2>>, <<4,2>>, <<0,3>>, <<4,3>>, <<0,4>>, <<4,4>>, <<1,5>>, <<3,5>>, <<2,6>> >> @@
    "W" :> << <<0,0>>, <<4,0>>, <<0,1>>, <<4,1>>, <<0,2>>, <<4,2>>, <<0,3>>, <<2,3>>, <<4,3>>, <<0,4>>, <<2,4>>, <<4,4>>, <<0,5>>, <<1,5>>, <<3,5>>, <<4,5>>, <<0,6>>, <<4,6>> >> @@
    "X" :> << <<0,0>>, <<4,0>>, <<0,1>>, <<4,1>>, <<1,2>>, <<3,2>>, <<2,3>>, <<1,4>>, <<3,4>>, <<0,5>>, <<4,5>>, <<0,6>>, <<4,6>> >> @@
    "Y" :> << <<0,0>>, <<4,0>>, <<0,1>>, <<4,1>>, <<1,2>>, <<3,2>>, <<2,3>>, <<2,4>>, <<2,5>>, <<2,6>> >> @@
    "Z" :> << <<0,0>>, <<1,0>>, <<2,0>>, <<3,0>>, <<4,0>>, <<4,1>>, <<3,2>>, <<2,3>>, <<1,4>>, <<0,5>>, <<0,6>>, <<1,6>>, <<2,6>>, <<3,6>>, <<4,6>> >> @@
    "a" :> << <<1,2>>, <<2,2>>, <<3,2>>, <<4,3>>, <<1,4>>, <<2,4>>, <<3,4>>, <<4,4>>, <<0,5>>, <<4,5>>, <<1,6>>, <<2,6>>, <<3,6>>, <<4,6>> >> @@
    "b" :> << <<0,0>>, <<0,1>>, <<0,2>>, <<2,2>>, <<3,2>>, <<0,3>>, <<1,3>>, <<4,3>>, <<0,4>>, <<4,4>>, <<0,5>>, <<4,5>>, <<0,6>>, <<1,6>>, <<2,6>>, <<3,6>> >> @@
    "c" :> << <<1,2>>, <<2,2>>, <<3,2>>, <<0,3>>, <<0,4>>, <<0,5>>, <<4,5>>, <<1,6>>, <<2,6>>, <<3,6>> >> @@
    "d" :> << <<4,0>>, <<4,1>>, <<1,2>>, <<2,2>>, <<4,2>>, <<0,3>>, <<3,3>>, <<4,3>>, <<0,4>>, <<4,4>>, <<0,5>>, <<4,5>>, <<1,6>>, <<2,6>>, <<3,6>>, <<4,6>> >> @@
    "e" :> << <<1,2>>, <<2,2>>, <<3,2>>, <<0,3>>, <<4,3>>, <<0,4>>, <<1,4>>, <<2,4>>, <<3,4>>, <<4,4>>, <<0,5>>, <<1,6>>, <<2,6>>, <<3,6>> >> @@
    "f" :> << <<2,0>>, <<3,0>>, <<1,1>>, <<4,1>>, <<1,2>>, <<0,3>>, <<1,3>>, <<2,3>>, <<1,4>>, <<1,5>>, <<1,6>> >> @@
    "g" :> << <<1,2>>, <<2,2>>, <<3,2>>, <<4,2>>, <<0,3>>, <<4,3>>, <<1,4>>, <<2,4>>, <<3,4>>, <<4,4>>, <<4,5>>, <<2,6>>, <<3,6>> >> @@
    "h" :> << <<0,0>>, <<0,1>>, <<0,2>>, <<2,2>>, <<3,2>>, <<0,3>>, <<1,3>>, <<4,3>>, <<0,4>>, <<4,4>>, <<0,5>>, <<4,5>>, <<0,6>>, <<4,6>> >> @@
    "i" :> << <<2,0>>, <<1,2>>, <<2,2>>, <<2,3>>, <<2,4>>, <<2,5>>, <<1,6>>, <<2,6>>, <<3,6>> >> @@
    "j" :> << <<3,0>>, <<2,2>>, <<3,2>>, <<3,3>>, <<3,4>>, <<0,5>>, <<3,5>>, <<1,6>>, <<2,6>> >> @@
    "k" :> << <<1,0>>, <<1,1>>, <<1,2>>, <<4,2>>, <<1,3>>, <<3,3>>, <<1,4>>, <<2,4>>, <<1,5>>, <<3,5>>, <<1,6>>, <<4,6>> >> @@
    "l" :> << <<1,0>>, <<2,0>>, <<2,1>>, <<2,2>>, <<2,3>>, <<2,4>>, <<2,5>>, <<1,6>>, <<2,6>>, <<3,6>> >> @@
    "m" :> << <<0,2>>, <<1,2>>, <<3,2>>, <<0,3>>, <<2,3>>, <<4,3>>, <<0,4>>, <<2,4>>, <<4,4>>, <<0,5>>, <<4,5>>, <<0,6>>, <<4,6>> >> @@
    "n" :> << <<0,2>>, <<2,2>>, <<3,2>>, <<0,3>>, <<1,3>>, <<4,3>>, <<0,4>>, <<4,4>>, <<0,5>>, <<4,5>>, <<0,6>>, <<4,6>> >> @@
    "o" :> << <<1,2>>, <<2,2>>, <<3,2>>, <<0,3>>, <<4,3>>, <<0,4>>, <<4,4>>, <<0,5>>, <<4,5>>, <<1,6>>, <<2,6>>, <<3,6>> >> @@
    "p" :> << <<0,2>>, <<1,2>>, <<2,2>>, <<3,2>>, <<0,3>>, <<4,3>>, <<0,4>>, <<1,4>>, <<2,4>>, <<3,4>>, <<0,5>>, <<0,6>> >> @@
    "q" :> << <<1,2>>, <<2,2>>, <<4,2>>, <<0,3>>, <<3,3>>, <<4,3>>, <<1,4>>, <<2,4>>, <<3,4>>, <<4,4>>, <<4,5>>, <<4,6>> >> @@
    "r" :> << <<0,2>>, <<2,2>>, <<3,2>>, <<0,3>>, <<1,3>>, <<4,3>>, <<0,4>>, <<0,5>>, <<0,6>> >> @@
    "s" :> << <<1,2>>, <<2,2>>, <<3,2>>, <<0,3>>, <<1,4>>, <<2,4>>, <<3,4>>, <<4,5>>, <<0,6>>, <<1,6>>, <<2,6>>, <<3,6>> >> @@
    "t" :> << <<1,0>>, <<1,1>>, <<0,2>>, <<1,2>>, <<2,2>>, <<1,3>>, <<1,4>>, <<1,5>>, <<4,5>>, <<2,6>>, <<3,6>> >> @@
    "u" :> << <<0,2>>, <<4,2>>, <<0,3>>, <<4,3>>, <<0,4>>, <<4,4>>, <<0,5>>, <<3,5>>, <<4,5>>, <<1,6>>, <<2,6>>, <<4,6>> >> @@
    "v" :> << <<0,2>>, <<4,2>>, <<0,3>>, <<4,3>>, <<0,4>>, <<4,4>>, <<1,5>>, <<3,5>>, <<2,6>> >> @@
    "w" :> << <<0,2>>, <<4,2>>, <<0,3>>, <<4,3>>, <<0,4>>, <<2,4>>, <<4,4>>, <<0,5>>, <<2,5>>, <<4,5>>, <<1,6>>, <<3,6>> >> @@
    "x" :> << <<0,2>>, <<4,2>>, <<1,3>>, <<3,3>>, <<2,4>>, <<1,5>>, <<3,5>>, <<0,6>>, <<4,6>> >> @@
    "y" :> << <<0,2>>, <<4,2>>, <<0,3>>, <<4,3>>, <<1,4>>, <<2,4>>, <<3,4>>, <<4,4>>, <<4,5>>, <<1,6>>, <<2,6>>, <<3,6>> >> @@
    "z" :> << <<0,2>>, <<1,2>>, <<2,2>>, <<3,2>>, <<4,2>>, <<3,3>>, <<2,4>>, <<1,5>>, <<0,6>>, <<1,6>>, <<2,6>>, <<3,6>>, <<4,6>> >> @@
    " " :> <<>> @@
    "0" :> << <<1,0>>, <<2,0>>, <<3,0>>, <<0,1>>, <<4,1>>, <<0,2>>, <<3,2>>, <<4,2>>, <<0,3>>, <<2,3>>, <<4,3>>, <<0,4>>, <<1,4>>, <<4,4>>, <<0,5>>, <<4,5>>, <<1,6>>, <<2,6>>, <<3,6>> >> @@
    "1" :> << <<2,0>>, <<1,1>>, <<2,1>>, <<2,2>>, <<2,3>>, <<2,4>>, <<2,5>>, <<1,6>>, <<2,6>>, <<3,6>> >> @@
    "2" :> << <<1,0>>, <<2,0>>, <<3,0>>, <<0,1>>, <<4,1>>, <<4,2>>, <<3,3>>, <<2,4>>, <<1,5>>, <<0,6>>, <<1,6>>, <<2,6>>, <<3,6>>, <<4,6>> >> @@
    "3" :> << <<0,0>>, <<1,0>>, <<2,0>>, <<3,0>>, <<4,0>>, <<3,1>>, <<2,2>>, <<3,3>>, <<4,4>>, <<0,5>>, <<4,5>>, <<1,6>>, <<2,6>>, <<3,6>> >> @@
    "4" :> << <<3,0>>, <<2,1>>, <<3,1>>, <<1,2>>, <<3,2>>, <<0,3>>, <<3,3>>, <<0,4>>, <<1,4>>, <<2,4>>, <<3,4>>, <<4,4>>, <<3,5>>, <<3,6>> >> @@
    "5" :> << <<0,0>>, <<1,0>>, <<2,0>>, <<3,0>>, <<4,0>>, <<0,1>>, <<0,2>>, <<1,2>>, <<2,2>>, <<3,2>>, <<4,3>>, <<4,4>>, <<0,5>>, <<4,5>>, <<1,6>>, <<2,6>>, <<3,6>> >> @@
    "6" :> << <<2,0>>, <<3,0>>, <<1,1>>, <<0,2>>, <<0,3>>, <<1,3>>, <<2,3>>, <<3,3>>, <<0,4>>, <<4,4>>, <<0,5>>, <<4,5>>, <<1,6>>, <<2,6>>, <<3,6>> >> @@
    "7" :> << <<0,0>>, <<1,0>>, <<2,0>>, <<3,0>>, <<4,0>>, <<4,1>>, <<3,2>>, <<2,3>>, <<1,4>>, <<1,5>>, <<1,6>> >> @@
    "8" :> << <<1,0>>, <<2,0>>, <<3,0>>, <<0,1>>, <<4,1>>, <<0,2>>, <<4,2>>, <<1,3>>, <<2,3>>, <<3,3>>, <<0,4>>, <<4,4>>, <<0,5>>, <<4,5>>, <<1,6>>, <<2,6>>, <<3,6>> >> @@
    "9" :> << <<1,0>>, <<2,0>>, <<3,0>>, <<0,1>>, <<4,1>>, <<0,2>>, <<4,2>>, <<1,3>>, <<2,3>>, <<3,3>>, <<4,3>>, <<4,4>>, <<3,5>>, <<1,6>>, <<2,6>> >>
\* ------------------------------------------------------------ Display
\* Display.show, static branch: every glyph pixel of every character, drawn
\* at x = dx + 6 * strcount with colour 10.
StaticPaint(strlist, cur) ==
    Flatten([sc \in 1..Len(strlist) |->
        Flatten([a \in 1..Len(wordStock[strlist[sc]]) |->
            pixel(wordStock[strlist[sc]][a][1] + (sc - 1) * 6,
                  wordStock[strlist[sc]][a][2], 10, None, None, cur).txs])])

\* Display.show, one pass of the scroll loop body up to time.sleep: the
\* glyph pixels whose x = dx + skewing is not negative, with colour 20.
ScrollPaint(strlist, off, cur) ==
    Flatten([sc \in 1..Len(strlist) |->
        LET skewing == (sc - 1) * 6 + off IN
        Flatten([n \in 1..Len(wordStock[strlist[sc]]) |->
            IF wordStock[strlist[sc]][n][1] + skewing >= 0
            THEN pixel(wordStock[strlist[sc]][n][1] + skewing,
                       wordStock[strlist[sc]][n][2], 20, None, None, cur).txs
            ELSE << >>])])

\* The static test moved up by one: len(strlist) < 5.
IsStatic_five(strlist) == Len(strlist) < 5

\* Display.show: the test guarding the static branch.
IsStatic(strlist) == Len(strlist) < 4

\* Display.show: the test guarding the scroll loop.
IsScroll(strlist) == Len(strlist) > 3

\* The scroll range with its end included: range(0, -6*len(strlist) - 1, -1).
ScrollRange_inclusive(strlist) == (-6 * Len(strlist))..0

\* range(0, -6*len(strlist), -1) as the set of its values.
ScrollRange(strlist) == {o \in (-6 * Len(strlist))..0 : o > -6 * Len(strlist)}

\* ------------------------------------------------------------ state
VARIABLES
    dev,      \* the chip: selected bank, configuration page, frame pages
    _frame,   \* Matrix._frame
    last,     \* the most recent call: name, arguments, outcome, bus traffic
    nops,     \* calls made since construction
    pc,       \* where show() stands: "idle", "paint" or "sleep"
    strlist,  \* show(): the text being scrolled
    offset,   \* show(): the loop variable of the scroll
    paints,   \* show(): frame-paint steps done by the current call
    bus       \* two callers: the transactions each has yet to send, and
              \* whose bank-select write reached the chip last

vars == << dev, _frame, last, nops, pc, strlist, offset, paints, bus >>

\* ------------------------------------------------------------ inputs
\* The last call of a run draws its arguments from the full sets below; the
\* calls before it, which only prepare the state it starts from, draw from
\* the smaller sets named ...0.
Pick(full, prep) == IF nops + 1 < MaxOps THEN prep ELSE full

FrameArgs == {None, -1, 0, 3, 7, 8, 9}
FrameArgs0 == {3, 8}
FlagArgs == {0, 1}
FlagArgs0 == {1}
DelayArgs == {-1, 0, 10, 704, 715}
DelayArgs0 == {704}
LoopArgs == {-1, 7, 8}
LoopArgs0 == {7}
FramesArgs == {7, 8}
FramesArgs0 == {7}
RateArgs == {0, 45, 46, 11776, 11822}
RateArgs0 == {46}
GainArgs == {-1, 21, 24}
GainArgs0 == {21}
ColorArgs == {None, -1, 0, 20, 255, 256}
ColorArgs0 == {20}
BlinkArgs == {None, 1}
BlinkArgs0 == {None}
BankArgs == {None} \cup (0..8)
BankArgs0 == {None}
XArgs == {-1, 0, 8, 9, 16, 17, 18}
YArgs == {-1, 0, 6, 7, 8}
PixelColorArgs == {None, -1, 20, 256}
LenArgs == {0, 1, 100, 144, 145}
SyncArgs == {None, 0, 1}
DataBytes == {7, 255}
Corpus == << "H", "e", "l", "o", "1", "2", "W" >>
Texts ==
    {<< >>} \cup {SubSeq(Corpus, ij[1], ij[2]) :
                     ij \in {p \in (1..Len(Corpus)) \X (1..Len(Corpus)) :
                                p[2] >= p[1] /\ p[2] - p[1] + 1 <= MaxLen}}
PixelFrameArgs == {None, 5}
Coords == (0..(width - 1)) \X (0..(height - 1))

\* ------------------------------------------------------------ construction
\* The chip after power-up: bank 0 selected and every register 0.
PowerOn ==
    [bank |-> 0,
     cfg |-> [r \in ConfigRegs |-> 0],
     mem |-> [b \in FrameBanks |-> [o \in FrameOffsets |-> 0]]]

Called(op, args, res, ret) ==
    [op |-> op, args |-> args, raised |-> res.raised, txs |-> res.txs, ret |-> ret]

\* The callers of a display object shared without a lock: the one running
\* show(), and a second one.
Callers == {"show", "other"}

\* No caller has anything to send; no bank-select write has been sent yet.
NoBus == [q |-> [c \in Callers |-> << >>], who |-> "none"]

\* display = Display(i2c): the state once Matrix.__init__ has returned.
Constructed ==
    LET r == __init__(None) IN
    /\ dev = DevRun(PowerOn, r.txs)
    /\ _frame = r.frame
    /\ nops = 0
    /\ pc = "idle"
    /\ strlist = << >>
    /\ offset = 0
    /\ paints = 0
    /\ bus = NoBus

Init == Constructed /\ last = Called("__init__", << >>, __init__(None), << >>)

\* ------------------------------------------------------------ calls
\* A whole method call that runs to its return or its raise.
Call(op, args, res) ==
    /\ pc = "idle"
    /\ nops < MaxOps
    /\ dev' = DevRun(dev, res.txs)
    /\ _frame' = res.frame
    /\ last' = Called(op, args, res, << >>)
    /\ nops' = nops + 1
    /\ UNCHANGED << pc, strlist, offset, paints, bus >>

\* Display(i2c) built again over the same chip.
Construct == nops + 1 = MaxOps /\ Call("__init__", << >>, __init__(_frame))

Sleep == \E v \in Pick(FlagArgs, FlagArgs0) : Call("sleep", << v >>, sleep(v, _frame))

Frame ==
    \E f \in Pick(FrameArgs, FrameArgs0), s \in Pick(FlagArgs, FlagArgs0) :
        Call("frame", << f, s >>, frame(f, s, _frame))

Autoplay ==
    \E d \in Pick(DelayArgs, DelayArgs0), l \in Pick(LoopArgs, LoopArgs0),
       f \in Pick(FramesArgs, FramesArgs0) :
        Call("autoplay", << d, l, f >>, autoplay(d, l, f, _frame))

AudioPlay ==
    \E r \in Pick(RateArgs, RateArgs0), g \in Pick(GainArgs, GainArgs0),
       e \in Pick(FlagArgs, FlagArgs0), q \in Pick(FlagArgs, FlagArgs0) :
        Call("audio_play", << r, g, e, q >>, audio_play(r, g, e, q, _frame))

Fill ==
    \E c \in Pick(ColorArgs, ColorArgs0), b \in Pick(BlinkArgs, BlinkArgs0),
       f \in Pick(BankArgs, BankArgs0) :
        Call("fill", << c, b, f >>, fill(c, b, f, _frame))

Pixel ==
    \E x \in XArgs, y \in YArgs, c \in PixelColorArgs, f \in PixelFrameArgs :
        nops + 1 = MaxOps
        /\ Call("pixel", << x, y, c, f >>, pixel(x, y, c, None, f, _frame))

\* write_frame with a payload of n equal bytes.
WriteFrame ==
    \E n \in LenArgs, v \in DataBytes, f \in BankArgs :
        nops + 1 = MaxOps
        /\ Call("write_frame", << n, v, f >>, write_frame(Repeat(v, n), f, _frame))

AudioSync ==
    \E v \in SyncArgs :
        nops + 1 = MaxOps /\ Call("audio_sync", << v >>, audio_sync(v, _frame))

Next ==
    \/ Construct \/ Sleep \/ Frame \/ Autoplay \/ AudioPlay
    \/ Fill \/ Pixel \/ WriteFrame \/ AudioSync

Spec == Init /\ [][Next]_vars

\* ------------------------------------------------------------ show()
\* Display.show(string_list) up to the first pause: fill(0), then either the
\* whole static branch or the entry into the scroll loop.
Show ==
    \E t \in Texts :
        LET clear == fill(0, None, None, _frame)
            static == IsStatic(t)
            res == Result(clear.txs \o (IF static THEN StaticPaint(t, _frame) ELSE << >>),
                          FALSE, _frame)
        IN  /\ nops + 1 = MaxOps
            /\ pc = "idle"
            /\ dev' = DevRun(dev, res.txs)
            /\ last' = Called("show", t, res, << >>)
            /\ nops' = nops + 1
            /\ strlist' = t
            /\ offset' = 0
            /\ paints' = IF static THEN 1 ELSE 0
            /\ pc' = IF IsScroll(t) /\ ScrollRange(t) # {} THEN "paint" ELSE "idle"
            /\ UNCHANGED << _frame, bus >>

\* One pass of the loop body up to time.sleep(0.05).
ShowPaint ==
    /\ pc = "paint"
    /\ LET res == Result(ScrollPaint(strlist, offset, _frame), FALSE, _frame) IN
       /\ dev' = DevRun(dev, res.txs)
       /\ last' = Called("show.paint", << offset >>, res, << >>)
    /\ paints' = paints + 1
    /\ pc' = "sleep"
    /\ UNCHANGED << _frame, nops, strlist, offset, bus >>

\* The rest of the pass: the pause is over, fill(0), and the loop advances
\* or ends.
ShowClear ==
    /\ pc = "sleep"
    /\ LET res == fill(0, None, None, _frame) IN
       /\ dev' = DevRun(dev, res.txs)
       /\ last' = Called("show.fill", << offset >>, res, << >>)
    /\ offset' = offset - 1
    /\ pc' = IF offset - 1 \in ScrollRange(strlist) THEN "paint" ELSE "idle"
    /\ UNCHANGED << _frame, nops, strlist, paints, bus >>

\* The calls that prepare the state show() starts from.
Prepare == nops + 1 < MaxOps /\ (Sleep \/ Frame \/ Autoplay \/ AudioPlay \/ Fill)

NextShow == Prepare \/ Show \/ ShowPaint \/ ShowClear

SpecShow == Init /\ [][NextShow]_vars

\* ShowPaint and ShowClear told by show()'s position alone: in SpecShow no
\* other step leaves "paint" or "sleep".
PaintStep == pc = "paint" /\ pc' = "sleep"
ClearStep == pc = "sleep" /\ pc' \in {"paint", "idle"}

\* show() runs to completion once started: it is a blocking loop of bus
\* writes and time.sleep(0.05), and nothing else shares its thread.
FairShow == SpecShow /\ WF_pc(PaintStep) /\ WF_pc(ClearStep)

\* ------------------------------------------------------------ _pixel_addr
\* Two coordinates of the matrix, not yet translated ...
InitAddr ==
    /\ Constructed
    /\ \E p \in Coords, q \in Coords :
          last = [op |-> "coords", args |-> << p[1], p[2], q[1], q[2] >>,
                  raised |-> FALSE, txs |-> << >>, ret |-> << >>]

\* ... and translated.
PixelAddr ==
    /\ last.op = "coords"
    /\ last' = [last EXCEPT !.op = "_pixel_addr",
                            !.ret = << _pixel_addr(last.args[1], last.args[2]),
                                       _pixel_addr(last.args[3], last.args[4]) >>]
    /\ UNCHANGED << dev, _frame, nops, pc, strlist, offset, paints, bus >>

SpecAddr == InitAddr /\ [][PixelAddr]_vars

\* ------------------------------------------------------------ two callers
\* The same display object driven by two callers with no lock: each method
\* call is a sequence of i2c.writeto_mem calls, and between any two of them
\* the other caller may run. A caller's method hands its transactions to the
\* bus in order; RaceXfer sends the next one of either caller.
\* show() scrolls one text here, the shortest that scrolls: a digit and
\* three blanks.
RaceTexts == {<< "1", " ", " ", " " >>}

\* The caller c starts a method whose transactions are res.txs.
RaceBegin(c, op, args, res) ==
    /\ bus.q[c] = << >>
    /\ bus' = [bus EXCEPT !.q[c] = res.txs]
    /\ last' = Called(op, args, res, << c >>)
    /\ UNCHANGED dev

\* show(text), scrolling: self.fill(0) before the loop.
RaceShow ==
    \E t \in RaceTexts :
        /\ pc = "idle" /\ strlist = << >>
        /\ IsScroll(t) /\ ~IsStatic(t)
        /\ RaceBegin("show", "show", t, fill(0, None, None, _frame))
        /\ strlist' = t
        /\ offset' = 0
        /\ paints' = 0
        /\ pc' = IF ScrollRange(t) # {} THEN "paint" ELSE "idle"
        /\ UNCHANGED << _frame, nops >>

\* One pass of the scroll loop up to time.sleep(0.05).
RacePaint ==
    /\ pc = "paint"
    /\ RaceBegin("show", "show.paint", << offset >>,
                 Result(ScrollPaint(strlist, offset, _frame), FALSE, _frame))
    /\ paints' = paints + 1
    /\ pc' = "sleep"
    /\ UNCHANGED << _frame, nops, strlist, offset >>

\* The rest of the pass: fill(0), and the loop advances or ends.
RaceClear ==
    /\ pc = "sleep"
    /\ RaceBegin("show", "show.fill", << offset >>, fill(0, None, None, _frame))
    /\ offset' = offset - 1
    /\ pc' = IF offset - 1 \in ScrollRange(strlist) THEN "paint" ELSE "idle"
    /\ UNCHANGED << _frame, nops, strlist, paints >>

\* The second caller writes a configuration register.
RaceSleep ==
    /\ nops < MaxRaceCalls
    /\ \E v \in FlagArgs : RaceBegin("other", "sleep", << v >>, sleep(v, _frame))
    /\ nops' = nops + 1
    /\ UNCHANGED << _frame, pc, strlist, offset, paints >>

\* The next i2c.writeto_mem of caller c reaches the chip. last.ret keeps the
\* bank that was selected when it arrived.
RaceXfer ==
    \E c \in Callers :
        /\ bus.q[c] # << >>
        /\ LET t == Head(bus.q[c]) IN
           /\ dev' = DevStep(dev, t)
           /\ bus' = [q |-> [bus.q EXCEPT ![c] = Tail(bus.q[c])],
                      who |-> IF t.reg = _BANK_ADDRESS THEN c ELSE bus.who]
           /\ last' = [op |-> "xfer", args |-> << c >>, raised |-> FALSE,
                       txs |-> << t >>, ret |-> << dev.bank >>]
        /\ UNCHANGED << _frame, nops, pc, strlist, offset, paints >>

NextRace == RaceShow \/ RacePaint \/ RaceClear \/ RaceSleep \/ RaceXfer

SpecRace == Init /\ [][NextRace]_vars

\* ------------------------------------------------------------ properties
ColorPlane == _COLOR_OFFSET..(_COLOR_OFFSET + 143)
BlinkPlane == _BLINK_OFFSET..(_BLINK_OFFSET + 17)
EnablePlane == _ENABLE_OFFSET..(_ENABLE_OFFSET + 17)

\* C1: for any two coordinates with x in 0..16 and y in 0..6, _pixel_addr
\* yields indices in 0..143, and distinct coordinates yield distinct indices.
C1_AddrInjective ==
    last.op = "_pixel_addr" =>
        /\ last.ret[1] \in 0..143
        /\ last.ret[2] \in 0..143
        /\ (<< last.args[1], last.args[2] >> # << last.args[3], last.args[4] >>
                => last.ret[1] # last.ret[2])

\* Columns 8 and 9, either side of the quadrant split, have been translated.
C1_Witness ==
    last.op = "_pixel_addr" /\ last.args = << 8, 0, 9, 0 >> /\ last.ret = << 135, 136 >>

\* C2: pixel(x, y, color) with x outside 0..16 or y outside 0..6 issues no
\* bus transaction and raises nothing, whatever the colour.
C2_OffMatrixSilent ==
    (last.op = "pixel" /\ (last.args[1] \notin 0..16 \/ last.args[2] \notin 0..6))
        => (last.txs = << >> /\ ~last.raised)

\* A fill or an on-matrix pixel call given a colour outside 0..255.
BadColorCall ==
    \/ last.op = "fill" /\ last.args[1] # None /\ last.args[1] \notin 0..255
    \/ /\ last.op = "pixel"
       /\ last.args[1] \in 0..16 /\ last.args[2] \in 0..6
       /\ last.args[3] # None /\ last.args[3] \notin 0..255

\* C3: fill and pixel given a colour below 0 or above 255 raise and issue no
\* write at all on the bus, not even the bank-select write.
C3_BadColorNoWrite == BadColorCall => (last.raised /\ last.txs = << >>)

\* C4: an audio_play call that raises leaves the ADC, gain and mode
\* registers holding what they held before the call.
C4_RejectedAudioPlayUntouched ==
    [][(last'.op = "audio_play" /\ last'.raised) =>
            /\ dev'.cfg[_ADC_REGISTER] = dev.cfg[_ADC_REGISTER]
            /\ dev'.cfg[_GAIN_REGISTER] = dev.cfg[_GAIN_REGISTER]
            /\ dev'.cfg[_MODE_REGISTER] = dev.cfg[_MODE_REGISTER]]_vars

\* show() has returned from the scroll loop.
ScrollDone == pc = "idle" /\ last.op = "show.fill"

\* C5 as stated: a scroll of n >= 4 characters makes 6*n + 1 paint steps.
C5_PaintsPlusOne == ScrollDone => paints = 6 * Len(strlist) + 1

\* C5 as amended: a scroll of n >= 4 characters makes exactly 6*n paint
\* steps, the k-th at shift -(k - 1), so the shifts run from 0 down to
\* -(6*n - 1) inclusive.
C5_SixPerChar ==
    /\ pc = "paint" => (offset = -paints /\ paints < 6 * Len(strlist))
    /\ pc = "sleep" =>
          /\ offset = -(paints - 1)
          /\ paints \in 1..(6 * Len(strlist))
          /\ last.op = "show.paint" /\ last.args = << offset >>
    /\ ScrollDone => (paints = 6 * Len(strlist) /\ offset = -6 * Len(strlist))

\* A five-character scroll has run to its end after 30 paint steps.
C5_Witness == ScrollDone /\ Len(strlist) = 5 /\ paints = 30

\* An autoplay call with delay # 0 and loops, frames or delay div 11 out of
\* range.
BadAutoplayCall ==
    /\ last.op = "autoplay"
    /\ last.args[1] # 0
    /\ \/ last.args[2] \notin 0..7
       \/ last.args[3] \notin 0..7
       \/ (last.args[1] \div 11) \notin 1..64

\* C6: an autoplay call with delay # 0 and an out-of-range loops, frames or
\* scaled delay raises, and writes neither autoplay register nor the mode
\* register (it issues no transaction at all).
C6_RejectedAutoplayNoWrite == BadAutoplayCall => (last.raised /\ last.txs = << >>)

\* autoplay(10, 7, 7) was rejected for its delay alone.
C6_Witness == BadAutoplayCall /\ last.args = << 10, 7, 7 >> /\ last.raised

\* autoplay(0, ...) or audio_play(0, ...).
ZeroShortcut == last.op \in {"autoplay", "audio_play"} /\ last.args[1] = 0

\* C7: autoplay(0, loops, frames) and audio_play(0, ...), whatever the other
\* arguments and the mode before, raise nothing, leave the mode register at
\* picture mode, and write no other configuration register.
C7_ZeroCancels ==
    [][ZeroShortcut' =>
            /\ ~last'.raised
            /\ dev'.cfg[_MODE_REGISTER] = _PICTURE_MODE
            /\ \A r \in ConfigRegs \ {_MODE_REGISTER} : dev'.cfg[r] = dev.cfg[r]
            /\ \A i \in DOMAIN last'.txs :
                  last'.txs[i].reg \in {_BANK_ADDRESS, _MODE_REGISTER}]_vars

\* autoplay(0, 8, 8), out-of-range loops and frames, has cancelled an
\* autoplay set up earlier.
C7_Witness ==
    /\ ZeroShortcut /\ last.args = << 0, 8, 8 >>
    /\ dev.cfg[_AUTOPLAY1_REGISTER] = 119
    /\ dev.cfg[_MODE_REGISTER] = _PICTURE_MODE

\* The frame a fill call addresses.
FillTarget == IF last.args[3] = None THEN _frame ELSE last.args[3]

\* C8: after fill(color=c, frame=f) with c in 0..255 and f in 0..7, each of
\* the 144 intensity cells of frame f (offsets 0x24..0xB3 of bank f) holds c.
C8_FillCoversPlane ==
    (last.op = "fill" /\ last.args[1] \in 0..255 /\ FillTarget \in FrameBanks)
        => \A o \in ColorPlane : dev.mem[FillTarget][o] = last.args[1]

\* fill(255, frame=7) has been applied to a plane that held zeros.
C8_Witness ==
    /\ last.op = "fill" /\ last.args[1] = 255 /\ last.args[3] = 7
    /\ dev.mem[7][_COLOR_OFFSET + 143] = 255

\* C9: when Matrix.__init__ returns, the chip is out of shutdown, in
\* picture mode, showing frame 0 with frame 0 active in the driver; every
\* frame has 144 zero intensity cells, 18 zero blink bytes and 18 enable
\* bytes of 0xff; audio sync is off.
C9_ConstructedState ==
    last.op = "__init__" =>
        /\ dev.cfg[_SHUTDOWN_REGISTER] = 1
        /\ dev.cfg[_MODE_REGISTER] = _PICTURE_MODE
        /\ _frame = 0
        /\ dev.cfg[_FRAME_REGISTER] = 0
        /\ dev.cfg[_AUDIOSYNC_REGISTER] = 0
        /\ \A b \in FrameBanks :
              /\ \A o \in ColorPlane : dev.mem[b][o] = 0
              /\ \A o \in BlinkPlane : dev.mem[b][o] = 0
              /\ \A o \in EnablePlane : dev.mem[b][o] = 255

\* The driver has been constructed again over a chip on which autoplay had
\* been configured.
C9_Witness ==
    last.op = "__init__" /\ nops > 0 /\ dev.cfg[_AUTOPLAY1_REGISTER] = 119

\* C10: the active frame is always in 0..7, and frame(f) with f outside
\* 0..7 raises.
C10_ActiveFrameInRange ==
    /\ _frame \in 0..7
    /\ (last.op = "frame" /\ last.args[1] # None /\ last.args[1] \notin 0..7)
          => last.raised

\* The frame a write_frame call addresses.
WriteFrameTarget(l, cur) == IF l.args[3] = None THEN cur ELSE l.args[3]

\* C11: write_frame with more than 144 bytes raises and issues no bus write;
\* with at most 144 bytes it selects the target frame's bank and sends the
\* payload as one transfer starting at offset 0x24, so the first len(data)
\* intensity cells take the payload and every other cell keeps its value.
C11_WriteFrame ==
    [][last'.op = "write_frame" =>
         LET n == last'.args[1]
             f == WriteFrameTarget(last', _frame)
             t == last'.txs
         IN  /\ n > 144 => (last'.raised /\ t = << >> /\ dev' = dev)
             /\ n <= 144 =>
                   /\ ~last'.raised
                   /\ Len(t) = 2
                   /\ t[1].reg = _BANK_ADDRESS /\ t[1].data = << f >>
                   /\ t[2].reg = _COLOR_OFFSET /\ t[2].target = f
                   /\ t[2].data = Repeat(last'.args[2], n)
                   /\ f \in FrameBanks =>
                         \A o \in FrameOffsets :
                            dev'.mem[f][o] =
                               IF o >= _COLOR_OFFSET /\ o < _COLOR_OFFSET + n
                               THEN last'.args[2] ELSE dev.mem[f][o]]_vars

\* 100 bytes of 7 were written over a plane filled with 20: cell 99 holds
\* 7, cell 100 still 20.
C11_Witness ==
    /\ last.op = "write_frame" /\ last.args = << 100, 7, None >>
    /\ _frame \in FrameBanks
    /\ dev.mem[_frame][_COLOR_OFFSET + 99] = 7
    /\ dev.mem[_frame][_COLOR_OFFSET + 100] = 20

\* A rejected write_frame.
C11_WitnessRejected == last.op = "write_frame" /\ last.args[1] = 145 /\ last.raised

\* C12: sleep(v) sets the shutdown register to "not v" and changes neither
\* the mode register, the active frame, the frame register nor any frame
\* plane; a second sleep(v) right after it leaves the whole device as the
\* first one left it.
C12_SleepIdempotent ==
    [][last'.op = "sleep" =>
         /\ dev'.cfg[_SHUTDOWN_REGISTER] = (IF last'.args[1] = 0 THEN 1 ELSE 0)
         /\ dev'.cfg[_MODE_REGISTER] = dev.cfg[_MODE_REGISTER]
         /\ dev'.cfg[_FRAME_REGISTER] = dev.cfg[_FRAME_REGISTER]
         /\ _frame' = _frame
         /\ dev'.mem = dev.mem
         /\ DevRun(dev', sleep(last'.args[1], _frame').txs) = dev']_vars

\* sleep(False) was called while the chip was in autoplay or audio mode,
\* and the mode is still set.
C12_Witness ==
    /\ last.op = "sleep" /\ last.args = << 0 >>
    /\ dev.cfg[_MODE_REGISTER] # _PICTURE_MODE
    /\ dev.cfg[_SHUTDOWN_REGISTER] = 1

\* C13: show(text) takes exactly one of its two paths, split at length 4:
\* under 4 characters it clears, paints the glyphs once with colour 10 and
\* returns without entering the timed loop; from 4 characters on it issues
\* no static paint and enters the scroll loop.
C13_BoundaryAtFour ==
    /\ last.op = "show" =>
          /\ Len(strlist) < 4 =>
                /\ pc = "idle" /\ paints = 1
                /\ \A i \in 8..Len(last.txs) :
                      last.txs[i].reg = _BANK_ADDRESS \/ last.txs[i].data = << 10 >>
          /\ Len(strlist) >= 4 =>
                /\ pc = "paint" /\ paints = 0
                /\ last.txs = fill(0, None, None, _frame).txs
    /\ (pc \in {"paint", "sleep"} \/ last.op \in {"show.paint", "show.fill"})
          => Len(strlist) >= 4

\* A three-character text has been painted statically: show() is over and
\* pixel writes followed the clear.
C13_Witness ==
    last.op = "show" /\ Len(strlist) = 3 /\ pc = "idle" /\ Len(last.txs) > 7

\* A four-character text is in the scroll loop.
C13_WitnessScroll == Len(strlist) = 4 /\ pc = "sleep" /\ paints = 1

\* The call's transactions end with its only write to the mode register,
\* and each register of regs is written, in the configuration bank, before.
ModeWrittenLast(t, regs) ==
    /\ t # << >>
    /\ t[Len(t)].reg = _MODE_REGISTER /\ t[Len(t)].target = _CONFIG_BANK
    /\ \A i \in 1..(Len(t) - 1) : t[i].reg # _MODE_REGISTER
    /\ \A r \in regs :
          \E i \in 1..(Len(t) - 1) : t[i].reg = r /\ t[i].target = _CONFIG_BANK

\* C14: in an autoplay (delay # 0) or audio_play (sample_rate # 0) call
\* that does not raise, the write to the mode register is the last bus
\* write, after both autoplay registers, respectively the ADC and gain
\* registers, and the mode then holds the autoplay / audio mode bits.
C14_ModeLast ==
    /\ (last.op = "autoplay" /\ last.args[1] # 0 /\ ~last.raised) =>
          /\ ModeWrittenLast(last.txs, {_AUTOPLAY1_REGISTER, _AUTOPLAY2_REGISTER})
          /\ dev.cfg[_MODE_REGISTER] = BitOr(_AUTOPLAY_MODE, _frame)
    /\ (last.op = "audio_play" /\ last.args[1] # 0 /\ ~last.raised) =>
          /\ ModeWrittenLast(last.txs, {_ADC_REGISTER, _GAIN_REGISTER})
          /\ dev.cfg[_MODE_REGISTER] = _AUDIOPLAY_MODE

\* autoplay(704, 7, 7) went through while frame 3 was active.
C14_Witness ==
    /\ last.op = "autoplay" /\ last.args = << 704, 7, 7 >> /\ ~last.raised
    /\ _frame = 3 /\ dev.cfg[_MODE_REGISTER] = 11

RECURSIVE BankHeld(_, _)
\* Starting from device state d, each transaction of txs that is not a
\* bank-select write finds the chip's selected bank equal to its target.
BankHeld(d, txs) ==
    IF txs = << >> THEN TRUE
    ELSE IF Len(txs) = 1
         THEN txs[1].reg = _BANK_ADDRESS \/ d.bank = txs[1].target
    ELSE /\ BankHeld(d, SubSeq(txs, 1, Len(txs) \div 2))
         /\ BankHeld(DevRun(d, SubSeq(txs, 1, Len(txs) \div 2)),
                     SubSeq(txs, Len(txs) \div 2 + 1, Len(txs)))

\* C15: with one caller, every read or write of a register other than the
\* bank-select register reaches the chip while the selected bank is the
\* bank the call addresses, and a bank-select write of the same call
\* precedes it. This covers every call of the driver, whatever came before.
C15_BankSelectedFirst ==
    [][/\ \A i \in DOMAIN last'.txs :
             last'.txs[i].reg # _BANK_ADDRESS =>
                \E j \in 1..(i - 1) : last'.txs[j].reg = _BANK_ADDRESS
       /\ BankHeld(dev, last'.txs)]_vars

\* fill(20, blink=True, frame=5) has run: 6 bulk rows and 18 blink bytes
\* went to bank 5.
C15_Witness == last.op = "fill" /\ last.args = << 20, 1, 5 >> /\ dev.bank = 5


\* The intensity cells show() means to light for text s at the given shift:
\* _pixel_addr(6*i + shift + dx, dy) for each glyph offset (dx, dy) of
\* character i whose x lies on the matrix.
GlyphCells(s, shift) ==
    UNION { { _pixel_addr(6 * (i - 1) + shift + wordStock[s[i]][n][1],
                          wordStock[s[i]][n][2]) :
                n \in { k \in DOMAIN wordStock[s[i]] :
                          6 * (i - 1) + shift + wordStock[s[i]][k][1] \in 0..16 } } :
            i \in DOMAIN s }

\* The intensity cells of frame f that are not zero.
LitCells(f) == { a \in 0..143 : dev.mem[f][_COLOR_OFFSET + a] # 0 }

\* C16: at each paint step of show(text), the single paint of a short text
\* (shift 0) and every shift of a scroll, the nonzero intensity cells of the
\* active frame are exactly the cells of the glyph pixels whose x lies in
\* 0..16; no other cell is lit.
C16_PaintExact ==
    /\ (_frame \in FrameBanks /\ last.op = "show" /\ IsStatic(strlist))
          => LitCells(_frame) = GlyphCells(strlist, 0)
    /\ (_frame \in FrameBanks /\ last.op = "show.paint")
          => LitCells(_frame) = GlyphCells(strlist, offset)

\* The frame a fill, pixel or write_frame call l addresses when the active
\* frame is cur.
TargetFrame(l, cur) ==
    LET f == IF l.op = "pixel" THEN l.args[4] ELSE l.args[3] IN
    IF f = None THEN cur ELSE f

\* The offsets a transaction covers in its bank.
Covered(t) == t.reg..(t.reg + Len(t.data) - 1)

\* C17: fill, pixel and write_frame addressing frame f in 0..7, by argument
\* or as the active frame, leave every other frame's page and every
\* configuration register as they were, and neither change nor write frame
\* f's column-enable bytes.
C17_FramesIndependent ==
    [][(last'.op \in {"fill", "pixel", "write_frame"}
          /\ TargetFrame(last', _frame) \in FrameBanks) =>
         LET f == TargetFrame(last', _frame) IN
         /\ \A g \in FrameBanks \ {f} : dev'.mem[g] = dev.mem[g]
         /\ dev'.cfg = dev.cfg
         /\ \A o \in EnablePlane : dev'.mem[f][o] = dev.mem[f][o]
         /\ \A i \in DOMAIN last'.txs :
               last'.txs[i].reg # _BANK_ADDRESS =>
                  Covered(last'.txs[i]) \cap EnablePlane = {}]_vars

\* pixel(8, 0, 20, frame=5) has drawn on frame 5 while frame 3 is active.
C17_Witness ==
    /\ last.op = "pixel" /\ last.args = << 8, 0, 20, 5 >>
    /\ _frame = 3
    /\ dev.mem[5][_COLOR_OFFSET + 135] = 20
    /\ dev.mem[3][_COLOR_OFFSET + 135] = 0

\* The last transaction sent was a data write that arrived while a bank
\* other than its target was selected.
Misdirected ==
    /\ last.op = "xfer"
    /\ last.txs[1].reg # _BANK_ADDRESS
    /\ last.ret[1] # last.txs[1].target

\* C18: with two callers interleaving on the bus, a data write lands in a
\* bank other than its operation's target only in a bank the other caller
\* selected; and such a state is reachable (C18_Witness).
C18_MisdirectedByOther ==
    Misdirected => (bus.who \in Callers /\ bus.who # last.args[1])

\* The second caller's shutdown-register write has landed in frame 0, which
\* the scroll had selected: it cleared column-enable byte 0x0a there.
C18_Witness ==
    /\ Misdirected
    /\ last.args = << "other" >> /\ last.txs[1].target = _CONFIG_BANK
    /\ last.ret = << 0 >> /\ bus.who = "show"
    /\ pc = "sleep"
    /\ dev.mem[0][_SHUTDOWN_REGISTER] = 0

\* C19: every value written to the bank-select register is a valid bank id,
\* one of the frame banks 0..7 or the configuration bank 0x0b, whatever the
\* calls and their arguments.
C19_ValidBankIds ==
    \A i \in DOMAIN last.txs :
        last.txs[i].reg = _BANK_ADDRESS =>
            last.txs[i].data[1] \in FrameBanks \cup {_CONFIG_BANK}

\* A step of show(): its entry, a paint or a clear.
ShowStep == last'.op \in {"show", "show.paint", "show.fill"}

\* C20: show(text) with four or more characters, all in the glyph table,
\* terminates; when it returns, the 144 intensity cells of the active frame
\* are all 0; and no step of it changes a configuration register (the mode
\* register among them), the active frame index or another frame's page.
C20_ScrollEndsCleared ==
    /\ (pc = "paint" \/ pc = "sleep") ~> ScrollDone
    /\ [](ScrollDone /\ _frame \in FrameBanks
            => \A o \in ColorPlane : dev.mem[_frame][o] = 0)
    /\ [][ShowStep =>
            /\ dev'.cfg = dev.cfg
            /\ _frame' = _frame
            /\ \A g \in FrameBanks \ {_frame} : dev'.mem[g] = dev.mem[g]]_vars

\* A four-character scroll on frame 3 has returned: frame 3 is blank, and
\* frame 0 still holds the fill(20) made before frame 3 became active.
C20_Witness ==
    /\ ScrollDone /\ Len(strlist) = 4 /\ paints = 24
    /\ _frame = 3
    /\ \A o \in ColorPlane : dev.mem[3][o] = 0 /\ dev.mem[0][o] = 20
====
